---------------------------- MODULE Spec2Model ----------------------------
(***************************************************************************)
(* The aggregation layer of the notes collection: GetSortednotes,          *)
(* GetNotes, GetTags, GetCategories (content utilities) and getSortedNotes *)
(* (src/utils/notes.ts), over a bounded document source.                   *)
(***************************************************************************)
EXTENDS Integers, Sequences, FiniteSets, TLC

\* ------------------------------------------------------------- bounds
\* Largest number of documents in the "notes" collection.
MaxDocs == 3

\* Largest number of GetSortednotes invocations in flight in SpecShared.
MaxCalls == 2

\* ------------------------------------------------------------- values
\* What reading a property that was never set yields.
undefined == "<undefined>"

\* A z.date() value is written yyyymmdd, which orders as the timestamps do.
\* new Date(x).getFullYear()
getFullYear(date) == date \div 10000

\* An optional array is the empty set when the property is absent and the
\* singleton of the array when it is present.
absent == {}
Some(array) == {array}
The(option) == CHOOSE array \in option : TRUE

\* The front matters the documents are drawn from: published, tags
\* (z.array(z.string()).optional()) and category (z.string().optional()).
\* Every date occurs, so do date ties, absent and empty labels, names that
\* share a slug across documents ("Js"/"js", "Dev"/"dev") and within one
\* document, a tag listed twice, in either order of source position and date.
FrontMatters ==
  { [published |-> 20231201, tags |-> absent,               category |-> ""],
    [published |-> 20240110, tags |-> Some(<< >>),          category |-> undefined],
    [published |-> 20231201, tags |-> Some(<<"Js">>),       category |-> "Dev"],
    [published |-> 20240110, tags |-> Some(<<"js", "ts">>), category |-> "dev"],
    [published |-> 20240601, tags |-> Some(<<"ts", "ts">>), category |-> "ops"],
    [published |-> 20240601, tags |-> Some(<<"Js", "js">>), category |-> "dev"] }

\* The identifier-to-slug function of ./hash: pure and deterministic, and
\* not injective (names that differ in case share a slug).
IdToSlug(input) ==
  CASE input = "Js"  -> "js"
    [] input = "Dev" -> "dev"
    [] OTHER         -> input

\* One entry of the collection as getCollection hands it out.
Entry(i, draft, matter) ==
  [ id   |-> "n" \o ToString(i),
    slug |-> "s" \o ToString(i),
    data |-> [ title     |-> "T" \o ToString(i),
               published |-> matter.published,
               draft     |-> draft,
               tags      |-> matter.tags,
               category  |-> matter.category,
               nextSlug  |-> undefined,
               nextTitle |-> undefined,
               prevSlug  |-> undefined,
               prevTitle |-> undefined ] ]

\* ------------------------------------------------------------- state
VARIABLES
  store,      \* the "notes" collection, in source order
  PROD,       \* import.meta.env.PROD
  runtime,    \* the sort discipline of the engine the build runs on
  returned,   \* what the last finished invocation returned: [fn, value]
  calls       \* SpecShared: GetSortednotes invocations, by caller

vars == <<store, PROD, runtime, returned, calls>>

\* ------------------------------------------------------------- filter
\* Faulty variant: the filter lets drafts through in production too.
keepDrafts(entry, prod) == TRUE

\* ({ data }) => import.meta.env.PROD ? data.draft !== true : true
keep(entry, prod) == IF prod THEN entry.data.draft # TRUE ELSE TRUE

\* await getCollection("notes", filter)
getCollection(src, prod) == SelectSeq(src, LAMBDA e : keep(e, prod))

\* ------------------------------------------------------------- sort
\* Faulty variant: the comparison turned round, oldest first.
byPublishedAscending(a, b) ==
  IF a.data.published < b.data.published THEN -1 ELSE 1

\* (a, b) => dateA > dateB ? -1 : 1
byPublished(a, b) == IF a.data.published > b.data.published THEN -1 ELSE 1

\* (a, b) => (a.date > b.date ? -1 : 1)
byDate(a, b) == IF a.date > b.date THEN -1 ELSE 1

\* Faulty variant: the years compared the other way round.
byYearAsc(a, b) == a[1] - b[1]

\* (a, b) => b[0] - a[0]
byYearDesc(a, b) == b[1] - a[1]

\* comparefn(a, b), the comparator named by its place in the code.
Call(comparefn, a, b) ==
  CASE comparefn = "byPublished" -> byPublished(a, b)
    [] comparefn = "byDate"      -> byDate(a, b)
    [] comparefn = "byYearDesc"  -> byYearDesc(a, b)

\* Array.prototype.sort(comparefn).  For a comparator that is not a
\* consistent comparison function (one that answers 1 both ways for two equal
\* elements) the language leaves the order to the implementation.  The two
\* disciplines engines use to place an element x into a sorted prefix:
\*   "newFirst": binary insertion, asks comparefn(x, old) and goes left on < 0;
\*   "oldFirst": linear insertion, asks comparefn(old, x) and stops on <= 0.
\* A build runs on one engine, so the discipline is fixed per behaviour.
Engines == {"newFirst", "oldFirst"}

InsertAt(arr, pos, x) ==
  SubSeq(arr, 1, pos - 1) \o <<x>> \o SubSeq(arr, pos, Len(arr))

RECURSIVE BinarySearch(_, _, _, _, _)
BinarySearch(arr, x, left, right, comparefn) ==
  IF left >= right THEN left
  ELSE LET mid == left + ((right - left) \div 2)
       IN  IF Call(comparefn, x, arr[mid + 1]) < 0
           THEN BinarySearch(arr, x, left, mid, comparefn)
           ELSE BinarySearch(arr, x, mid + 1, right, comparefn)

RECURSIVE LinearSearch(_, _, _, _)
LinearSearch(arr, x, j, comparefn) ==
  IF j = 0 THEN 0
  ELSE IF Call(comparefn, arr[j], x) <= 0 THEN j
       ELSE LinearSearch(arr, x, j - 1, comparefn)

Insert(arr, x, comparefn, engine) ==
  IF engine = "newFirst"
  THEN InsertAt(arr, BinarySearch(arr, x, 0, Len(arr), comparefn) + 1, x)
  ELSE InsertAt(arr, LinearSearch(arr, x, Len(arr), comparefn) + 1, x)

RECURSIVE SortFrom(_, _, _, _, _)
SortFrom(arr, done, i, comparefn, engine) ==
  IF i > Len(arr) THEN done
  ELSE SortFrom(arr, Insert(done, arr[i], comparefn, engine), i + 1,
                comparefn, engine)

sort(arr, comparefn, engine) == SortFrom(arr, << >>, 1, comparefn, engine)

\* ------------------------------------------------------------- GetSortednotes
\* Faulty variant: the next* links take the element's own slug.
RECURSIVE StitchNextOwnSlug(_, _)
StitchNextOwnSlug(sorted, i) ==
  IF i >= Len(sorted) THEN sorted
  ELSE StitchNextOwnSlug(
         [sorted EXCEPT ![i + 1].data.nextSlug  = sorted[i + 1].slug,
                        ![i + 1].data.nextTitle = sorted[i].data.title],
         i + 1)

\* for (let i = 1; i < sorted.length; i++) { nextSlug, nextTitle }
RECURSIVE StitchNext(_, _)
StitchNext(sorted, i) ==
  IF i >= Len(sorted) THEN sorted
  ELSE StitchNext(
         [sorted EXCEPT ![i + 1].data.nextSlug  = sorted[i].slug,
                        ![i + 1].data.nextTitle = sorted[i].data.title],
         i + 1)

\* Faulty variant: the prev* loop stops one element early.
RECURSIVE StitchPrevShort(_, _)
StitchPrevShort(sorted, i) ==
  IF i >= Len(sorted) - 2 THEN sorted
  ELSE StitchPrevShort(
         [sorted EXCEPT ![i + 1].data.prevSlug  = sorted[i + 2].slug,
                        ![i + 1].data.prevTitle = sorted[i + 2].data.title],
         i + 1)

\* for (let i = 0; i < sorted.length - 1; i++) { prevSlug, prevTitle }
RECURSIVE StitchPrev(_, _)
StitchPrev(sorted, i) ==
  IF i >= Len(sorted) - 1 THEN sorted
  ELSE StitchPrev(
         [sorted EXCEPT ![i + 1].data.prevSlug  = sorted[i + 2].slug,
                        ![i + 1].data.prevTitle = sorted[i + 2].data.title],
         i + 1)

\* The body of GetSortednotes after the await.  Positions are 0-based in
\* the code and 1-based here: sorted[i] of the code is sorted[i + 1].
SortAndStitch(allBlognotes, engine) ==
  StitchPrev(StitchNext(sort(allBlognotes, "byPublished", engine), 1), 0)

\* ------------------------------------------------------------- getSortedNotes
\* src/utils/notes.ts: the sort without the links.
SortOnly(allNotes, engine) == sort(allNotes, "byPublished", engine)

\* ------------------------------------------------------------- Map
\* A Map is the sequence of its [key, value] entries in insertion order.
MapHas(map, key) == \E k \in 1..Len(map) : map[k][1] = key

MapIndex(map, key) == CHOOSE k \in 1..Len(map) : map[k][1] = key

MapGet(map, key) == map[MapIndex(map, key)][2]

MapSet(map, key, value) ==
  IF MapHas(map, key)
  THEN [map EXCEPT ![MapIndex(map, key)] = <<key, value>>]
  ELSE Append(map, <<key, value>>)

\* { title, id: `/notes/${IdToSlug(note.id)}`, date, tags }
NavEntry(note) ==
  [ title |-> note.data.title,
    id    |-> "/notes/" \o IdToSlug(note.id),
    date  |-> note.data.published,
    tags  |-> note.data.tags ]

\* ------------------------------------------------------------- GetNotes
\* One turn of for (const note of allBlognotes).
AddToYear(notes, note) ==
  LET year    == getFullYear(note.data.published)
      created == IF ~MapHas(notes, year) THEN MapSet(notes, year, << >>)
                 ELSE notes
  IN  MapSet(created, year, Append(MapGet(created, year), NavEntry(note)))

RECURSIVE BucketByYear(_, _, _)
BucketByYear(allBlognotes, notes, i) ==
  IF i > Len(allBlognotes) THEN notes
  ELSE BucketByYear(allBlognotes, AddToYear(notes, allBlognotes[i]), i + 1)

\* new Map([...notes.entries()].sort(...)), then every value sorted.
YearIndex(allBlognotes, engine) ==
  LET notes       == BucketByYear(allBlognotes, << >>, 1)
      sortedNotes == sort(notes, "byYearDesc", engine)
  IN  [k \in 1..Len(sortedNotes) |->
         <<sortedNotes[k][1], sort(sortedNotes[k][2], "byDate", engine)>>]

\* ------------------------------------------------------------- GetTags
\* Faulty variant: the note is pushed only when the tag's record is created.
AddTagOnce(tags, note, tag) ==
  LET tagSlug == IdToSlug(tag)
  IN  IF ~MapHas(tags, tagSlug)
      THEN MapSet(tags, tagSlug,
                  [name  |-> tag,
                   slug  |-> "/tags/" \o tagSlug,
                   notes |-> <<NavEntry(note)>>])
      ELSE tags

\* Faulty variant: the record takes the name of the tag met last.
AddTagLastName(tags, note, tag) ==
  LET tagSlug == IdToSlug(tag)
      notes   == IF MapHas(tags, tagSlug) THEN MapGet(tags, tagSlug).notes
                 ELSE << >>
  IN  MapSet(tags, tagSlug,
             [name  |-> tag,
              slug  |-> "/tags/" \o tagSlug,
              notes |-> Append(notes, NavEntry(note))])

\* One turn of note.data.tags?.forEach((tag) => ...).
AddTag(tags, note, tag) ==
  LET tagSlug == IdToSlug(tag)
      created == IF ~MapHas(tags, tagSlug)
                 THEN MapSet(tags, tagSlug,
                             [name  |-> tag,
                              slug  |-> "/tags/" \o tagSlug,
                              notes |-> << >>])
                 ELSE tags
      record  == MapGet(created, tagSlug)
  IN  MapSet(created, tagSlug,
             [record EXCEPT !.notes = Append(@, NavEntry(note))])

RECURSIVE AddTags(_, _, _, _)
AddTags(tags, note, list, j) ==
  IF j > Len(list) THEN tags
  ELSE AddTags(AddTag(tags, note, list[j]), note, list, j + 1)

\* One turn of allBlognotes.forEach((note) => ...).
TagNote(tags, note) ==
  IF note.data.tags = absent THEN tags
  ELSE AddTags(tags, note, The(note.data.tags), 1)

RECURSIVE TagIndex(_, _, _)
TagIndex(allBlognotes, tags, i) ==
  IF i > Len(allBlognotes) THEN tags
  ELSE TagIndex(allBlognotes, TagNote(tags, allBlognotes[i]), i + 1)

\* ------------------------------------------------------------- GetCategories
\* Faulty variant: only an absent category is skipped, not an empty one.
noCategoryAbsentOnly(category) == category = undefined

\* !note.data.category
noCategory(category) == category = undefined \/ category = ""

\* One turn of allBlognotes.forEach((note) => ...).
AddCategory(categories, note) ==
  IF noCategory(note.data.category) THEN categories
  ELSE LET categorySlug == IdToSlug(note.data.category)
           created == IF ~MapHas(categories, categorySlug)
                      THEN MapSet(categories, categorySlug,
                                  [name  |-> note.data.category,
                                   slug  |-> "/categories/" \o categorySlug,
                                   notes |-> << >>])
                      ELSE categories
           record  == MapGet(created, categorySlug)
       IN  MapSet(created, categorySlug,
                  [record EXCEPT !.notes = Append(@, NavEntry(note))])

RECURSIVE CategoryIndex(_, _, _)
CategoryIndex(allBlognotes, categories, i) ==
  IF i > Len(allBlognotes) THEN categories
  ELSE CategoryIndex(allBlognotes,
                     AddCategory(categories, allBlognotes[i]), i + 1)

\* ------------------------------------------------------------- specification
none == [fn |-> "none", value |-> << >>]

Init ==
  /\ \E n \in 0..MaxDocs :
       \E f \in [1..n -> BOOLEAN \X FrontMatters] :
         store = [i \in 1..n |-> Entry(i, f[i][1], f[i][2])]
  /\ PROD \in BOOLEAN
  /\ runtime \in Engines
  /\ returned = none
  /\ calls = [c \in 1..MaxCalls |-> [pc |-> "idle", allBlognotes |-> << >>]]

GetSortednotes ==
  /\ returned = none
  /\ returned' = [fn |-> "GetSortednotes",
                  value |-> SortAndStitch(getCollection(store, PROD), runtime)]
  /\ UNCHANGED <<store, PROD, runtime, calls>>

getSortedNotes ==
  /\ returned = none
  /\ returned' = [fn |-> "getSortedNotes",
                  value |-> SortOnly(getCollection(store, PROD), runtime)]
  /\ UNCHANGED <<store, PROD, runtime, calls>>

GetNotes ==
  /\ returned = none
  /\ returned' = [fn |-> "GetNotes",
                  value |-> YearIndex(getCollection(store, PROD), runtime)]
  /\ UNCHANGED <<store, PROD, runtime, calls>>

GetTags ==
  /\ returned = none
  /\ returned' = [fn |-> "GetTags",
                  value |-> TagIndex(getCollection(store, PROD), << >>, 1)]
  /\ UNCHANGED <<store, PROD, runtime, calls>>

GetCategories ==
  /\ returned = none
  /\ returned' = [fn |-> "GetCategories",
                  value |-> CategoryIndex(getCollection(store, PROD), << >>, 1)]
  /\ UNCHANGED <<store, PROD, runtime, calls>>

\* The page that awaited the view renders it and drops it: no view outlives
\* the invocation that built it.
Render ==
  /\ returned # none
  /\ returned' = none
  /\ UNCHANGED <<store, PROD, runtime, calls>>

Next ==
  \/ GetSortednotes
  \/ getSortedNotes
  \/ GetNotes
  \/ GetTags
  \/ GetCategories
  \/ Render

Spec == Init /\ [][Next]_vars

\* ------------------------------------------------------------- properties
\* The documents that pass the filter, by source position.
Kept == {i \in 1..Len(store) : ~(PROD /\ store[i].data.draft = TRUE)}

PosOf(id) == CHOOSE i \in 1..Len(store) : store[i].id = id

LocOf(i) == "/notes/" \o IdToSlug(store[i].id)

PosOfLoc(loc) == CHOOSE i \in 1..Len(store) : LocOf(i) = loc

TagsOf(i) == IF store[i].data.tags = absent THEN << >> ELSE The(store[i].data.tags)

HasCategory(i) == store[i].data.category \notin {undefined, ""}

Range(seq) == {seq[k] : k \in 1..Len(seq)}

\* All NavEntries of a Map of records (or of year buckets), as a set of
\* <<entry position in the map, position in the list, location>>.
Listed(map, notesOf(_)) ==
  UNION {{<<k, l, notesOf(map[k][2])[l].id>> :
            l \in 1..Len(notesOf(map[k][2]))} : k \in 1..Len(map)}

Self(x) == x
NotesField(r) == r.notes

Chronological == returned.fn \in {"GetSortednotes", "getSortedNotes"}

\* C1: every view is built from exactly the filtered set: in production the
\* documents whose draft is not true, otherwise all documents; so a draft is
\* in all four views when PROD is false and in none when PROD is true.
C1_SameFilteredSet ==
  /\ Chronological =>
        /\ Len(returned.value) = Cardinality(Kept)
        /\ {e.id : e \in Range(returned.value)} = {store[i].id : i \in Kept}
  /\ returned.fn = "GetNotes" =>
        /\ {t[3] : t \in Listed(returned.value, Self)} = {LocOf(i) : i \in Kept}
        /\ Cardinality(Listed(returned.value, Self)) = Cardinality(Kept)
  /\ returned.fn = "GetTags" =>
        {t[3] : t \in Listed(returned.value, NotesField)}
          = {LocOf(i) : i \in {j \in Kept : TagsOf(j) # << >>}}
  /\ returned.fn = "GetCategories" =>
        {t[3] : t \in Listed(returned.value, NotesField)}
          = {LocOf(i) : i \in {j \in Kept : HasCategory(j)}}

\* A production build with a draft that has tags and a category, and a view
\* that is not empty.
C1_Witness ==
  /\ PROD
  /\ \E i \in 1..Len(store) :
        store[i].data.draft = TRUE /\ TagsOf(i) # << >> /\ HasCategory(i)
  /\ returned.fn = "GetTags"
  /\ Len(returned.value) > 0

\* C2: the chronological sequence is a permutation of the filtered set,
\* sorted non-increasing by publication date.
C2_SortedPermutation ==
  Chronological =>
    /\ Len(returned.value) = Cardinality(Kept)
    /\ \A i \in Kept : \E k \in 1..Len(returned.value) :
          /\ returned.value[k].id = store[i].id
          /\ returned.value[k].slug = store[i].slug
          /\ returned.value[k].data.title = store[i].data.title
          /\ returned.value[k].data.published = store[i].data.published
    /\ \A k \in 1..(Len(returned.value) - 1) :
          returned.value[k].data.published >= returned.value[k + 1].data.published

\* Three documents that are not in date order in the source.
C2_Witness ==
  /\ returned.fn = "getSortedNotes"
  /\ Len(returned.value) = 3
  /\ store[1].data.published < store[2].data.published
  /\ returned.value[1].data.published > returned.value[3].data.published

C5_YearIndex ==
  returned.fn = "GetNotes" =>
    LET index == returned.value
    IN  /\ {index[k][1] : k \in 1..Len(index)}
             = {store[i].data.published \div 10000 : i \in Kept}
        /\ \A k \in 1..(Len(index) - 1) : index[k][1] > index[k + 1][1]
        /\ \A k \in 1..Len(index) :
              LET bucket == index[k][2]
                  ofYear == {i \in Kept :
                               store[i].data.published \div 10000 = index[k][1]}
              IN  /\ Len(bucket) = Cardinality(ofYear)
                  /\ \A i \in ofYear : \E l \in 1..Len(bucket) :
                        bucket[l] = [title |-> store[i].data.title,
                                     id    |-> LocOf(i),
                                     date  |-> store[i].data.published,
                                     tags  |-> store[i].data.tags]
                  /\ \A l \in 1..(Len(bucket) - 1) :
                        bucket[l].date >= bucket[l + 1].date

\* Two years met oldest first in the source, and a bucket whose two notes
\* are in the source oldest first.
C5_Witness ==
  /\ returned.fn = "GetNotes"
  /\ Len(returned.value) = 2
  /\ 1 \in Kept /\ store[1].data.published \div 10000 = 2023
  /\ Len(returned.value[1][2]) = 2
  /\ returned.value[1][2][1].date > returned.value[1][2][2].date
  /\ PosOfLoc(returned.value[1][2][1].id) > PosOfLoc(returned.value[1][2][2].id)

\* C6: in the chronological sequence and in every year bucket, two
\* documents with the same publication date keep their source order.
C6_Stable ==
  /\ Chronological =>
        \A k, l \in 1..Len(returned.value) :
          (k < l /\ returned.value[k].data.published
                     = returned.value[l].data.published)
            => PosOf(returned.value[k].id) < PosOf(returned.value[l].id)
  /\ returned.fn = "GetNotes" =>
        \A b \in 1..Len(returned.value) :
          LET bucket == returned.value[b][2]
          IN  \A k, l \in 1..Len(bucket) :
                (k < l /\ bucket[k].date = bucket[l].date)
                  => PosOfLoc(bucket[k].id) < PosOfLoc(bucket[l].id)

\* The (document, tag) pairs of the filtered set.
TagPairs == UNION {{<<i, j>> : j \in 1..Len(TagsOf(i))} : i \in Kept}

EntriesOf(map, i) == {t \in Listed(map, NotesField) : t[3] = LocOf(i)}

ListsOf(map, i) == {t[1] : t \in EntriesOf(map, i)}

\* C7 as stated: the entry lists of GetTags sum to the number of
\* (document, tag) pairs, and a document with k tags is in k different
\* entry lists (one without tags in none).
C7_Original ==
  returned.fn = "GetTags" =>
    /\ Cardinality(Listed(returned.value, NotesField)) = Cardinality(TagPairs)
    /\ \A i \in Kept :
          Cardinality(ListsOf(returned.value, i)) = Len(TagsOf(i))

\* C7 amended: the entry lists sum to the number of (document, tag) pairs;
\* a document with k tags contributes k entries, to as many different entry
\* lists as its tags have distinct slugs (k lists when no two of its tags
\* share a slug), and a document without tags contributes to none.
C7_Amended ==
  returned.fn = "GetTags" =>
    /\ Cardinality(Listed(returned.value, NotesField)) = Cardinality(TagPairs)
    /\ \A i \in Kept :
          /\ Cardinality(EntriesOf(returned.value, i)) = Len(TagsOf(i))
          /\ Cardinality(ListsOf(returned.value, i))
               = Cardinality({IdToSlug(t) : t \in Range(TagsOf(i))})

\* A document with two tags of one slug beside a document with two tags of
\* two slugs.
C7_Witness ==
  /\ returned.fn = "GetTags"
  /\ \E i, j \in Kept :
        /\ TagsOf(i) = <<"Js", "js">>
        /\ Cardinality(ListsOf(returned.value, i)) = 1
        /\ Len(TagsOf(j)) = 2
        /\ Cardinality(ListsOf(returned.value, j)) = 2

\* C8: a document with an empty or absent category has no entry in the
\* category index; one with category X has exactly one, in the record under
\* IdToSlug(X); so the entries number the filtered documents with a category.
C8_Categories ==
  returned.fn = "GetCategories" =>
    LET map == returned.value
    IN  /\ \A i \in 1..Len(store) :
              IF i \in Kept /\ HasCategory(i)
              THEN /\ Cardinality(EntriesOf(map, i)) = 1
                   /\ \A k \in ListsOf(map, i) :
                         map[k][1] = IdToSlug(store[i].data.category)
              ELSE EntriesOf(map, i) = {}
        /\ Cardinality(Listed(map, NotesField))
             = Cardinality({i \in Kept : HasCategory(i)})

\* An empty, an absent and a named category in one filtered set.
C8_Witness ==
  /\ returned.fn = "GetCategories"
  /\ \E i, j, k \in Kept :
        /\ store[i].data.category = ""
        /\ store[j].data.category = undefined
        /\ store[k].data.category = "Dev"
        /\ ListsOf(returned.value, k) # {}

\* The names met while iterating the filtered documents in source order
\* (and each document's tags in their order), with the document's position.
RECURSIVE TagOccurrences(_)
TagOccurrences(i) ==
  IF i > Len(store) THEN << >>
  ELSE (IF i \in Kept
        THEN [j \in 1..Len(TagsOf(i)) |-> [pos |-> i, name |-> TagsOf(i)[j]]]
        ELSE << >>) \o TagOccurrences(i + 1)

RECURSIVE CategoryOccurrences(_)
CategoryOccurrences(i) ==
  IF i > Len(store) THEN << >>
  ELSE (IF i \in Kept /\ HasCategory(i)
        THEN <<[pos |-> i, name |-> store[i].data.category]>>
        ELSE << >>) \o CategoryOccurrences(i + 1)

KeyedBySlug(map, occurrences) ==
  /\ \A k, l \in 1..Len(map) : k # l => map[k][1] # map[l][1]
  /\ {map[k][1] : k \in 1..Len(map)}
       = {IdToSlug(o.name) : o \in Range(occurrences)}
  /\ \A k \in 1..Len(map) :
        LET mine == SelectSeq(occurrences,
                              LAMBDA o : IdToSlug(o.name) = map[k][1])
        IN  /\ map[k][2].name = mine[1].name
            /\ Len(map[k][2].notes) = Len(mine)
            /\ \A l \in 1..Len(mine) :
                  /\ map[k][2].notes[l].id = LocOf(mine[l].pos)
                  /\ map[k][2].notes[l].title = store[mine[l].pos].data.title

\* C9: the tag and category maps are keyed by slug; names with one slug
\* share one record, named as the first of them met in document iteration
\* order, whose entries are those of all of them in that order.
C9_KeyedBySlug ==
  /\ returned.fn = "GetTags" => KeyedBySlug(returned.value, TagOccurrences(1))
  /\ returned.fn = "GetCategories" =>
        KeyedBySlug(returned.value, CategoryOccurrences(1))

\* "Js" met before "js": one record named "Js" with both notes, the older
\* note first because it is first in the source.
C9_Witness ==
  /\ returned.fn = "GetTags"
  /\ \E k \in 1..Len(returned.value) :
        /\ returned.value[k][2].name = "Js"
        /\ Len(returned.value[k][2].notes) = 2
        /\ returned.value[k][2].notes[1].date < returned.value[k][2].notes[2].date
        /\ "js" \in Range(TagsOf(PosOfLoc(returned.value[k][2].notes[2].id)))

\* ------------------------------------------------------------- shared records
\* The document source hands every invocation the same entry objects: an
\* array the invocation got holds references (positions in store), and a
\* write to sorted[i].data is a write to the record in store.  All notes
\* start published.
Published == {m.published : m \in FrontMatters}

MatterOf(date) == CHOOSE m \in FrontMatters : m.published = date

InitShared ==
  /\ \E n \in 1..MaxDocs :
       \E f \in [1..n -> Published] :
         store = [i \in 1..n |-> Entry(i, FALSE, MatterOf(f[i]))]
  /\ PROD \in BOOLEAN
  /\ runtime \in Engines
  /\ returned = none
  /\ calls = [c \in 1..MaxCalls |-> [pc |-> "idle", allBlognotes |-> << >>]]

\* The references getCollection resolves to.
Refs(src, prod) ==
  SelectSeq([i \in 1..Len(src) |-> i], LAMBDA i : keep(src[i], prod))

\* const allBlognotes = await getCollection(...): the invocation is
\* suspended until the source resolves.
Await(c) ==
  /\ calls[c].pc = "idle"
  /\ calls' = [calls EXCEPT ![c] = [pc |-> "resolved",
                                    allBlognotes |-> Refs(store, PROD)]]
  /\ UNCHANGED <<store, PROD, runtime, returned>>

\* The synchronous rest of GetSortednotes, on the shared records.
Resume(c) ==
  /\ calls[c].pc = "resolved"
  /\ LET refs   == calls[c].allBlognotes
         sorted == SortAndStitch([k \in 1..Len(refs) |-> store[refs[k]]],
                                 runtime)
     IN  /\ store' = [i \in 1..Len(store) |->
                        IF \E k \in 1..Len(sorted) : sorted[k].id = store[i].id
                        THEN sorted[CHOOSE k \in 1..Len(sorted) :
                                      sorted[k].id = store[i].id]
                        ELSE store[i]]
         /\ returned' = [fn |-> "GetSortednotes", value |-> sorted]
  /\ calls' = [calls EXCEPT ![c] = [pc |-> "idle", allBlognotes |-> << >>]]
  /\ UNCHANGED <<PROD, runtime>>

\* The author marks a published note as a draft.
EditDraft(i) ==
  /\ store[i].data.draft = FALSE
  /\ store' = [store EXCEPT ![i].data.draft = TRUE]
  /\ UNCHANGED <<PROD, runtime, returned, calls>>

NextShared ==
  \/ \E c \in 1..MaxCalls : Await(c)
  \/ \E c \in 1..MaxCalls : Resume(c)
  \/ \E i \in 1..Len(store) : EditDraft(i)

SpecShared == InitShared /\ [][NextShared]_vars

\* C10: whatever GetSortednotes invocations ran before or meanwhile, the
\* links of a returned sequence come from that sequence alone: the first
\* element has no next*, the last has no prev*, and every link names an
\* element of the sequence.
C10_NoInterference ==
  (returned.fn = "GetSortednotes" /\ Len(returned.value) > 0) =>
    LET sorted == returned.value
        slugs  == {e.slug : e \in Range(sorted)} \cup {undefined}
    IN  /\ sorted[1].data.nextSlug = undefined
        /\ sorted[1].data.nextTitle = undefined
        /\ sorted[Len(sorted)].data.prevSlug = undefined
        /\ sorted[Len(sorted)].data.prevTitle = undefined
        /\ \A k \in 1..Len(sorted) :
              sorted[k].data.nextSlug \in slugs /\ sorted[k].data.prevSlug \in slugs

=============================================================================
